---- MODULE Spec2Model ----
(***************************************************************************)
(* A model of src/src/ply-video-buffer.c: the framebuffer abstraction of   *)
(* the plymouth boot splash.  One PlyVideoBuffer context, the device it    *)
(* maps, and the public operations on it.                                  *)
(*                                                                         *)
(* Conventions                                                             *)
(*  - a 32-bit word is the sequence of its four bytes, least significant  *)
(*    first (TLC's integers are too narrow to hold one); a canonical      *)
(*    pixel has alpha in bits 24-31, red 16-23, green 8-15, blue 0-7;     *)
(*  - device memory is a sequence of bytes, byte offset o is element o+1;  *)
(*    the shadow buffer is a sequence of pixels, index i is element i+1;   *)
(*  - a double in [0,1] given by a caller is the rational n/Half (so 0, 1  *)
(*    and 2 stand for 0.0, 0.5 and 1.0); the double arithmetic of the      *)
(*    source is computed exactly on rationals and truncated where the      *)
(*    source casts to uint8_t.  On every value this model reaches, the     *)
(*    IEEE double computation of the source gives the same result.         *)
(*  - words are stored little-endian (memcpy of a uint_least32_t).         *)
(***************************************************************************)
EXTENDS Integers, Sequences, FiniteSets, TLC

(***************************************************************************)
(* Bounds of the model.                                                    *)
(***************************************************************************)
\* calls of ply_video_buffer_open, of ply_video_buffer_set_device_name and
\* of the drawing operations (fill_with_color, fill_with_argb32_data,
\* fill_with_argb32_data_at_opacity) the caller makes; pause, unpause,
\* close and free are not counted
MaxCalls == 3
\* calls of msync that fail
MaxSyncFailures == 1

(***************************************************************************)
(* Machine arithmetic.                                                     *)
(***************************************************************************)
\* map_address: the value mmap returns on failure, and a live mapping
MAP_FAILED == "MAP_FAILED"

Mapped == "mapped"

\* sizeof (uint_least32_t): the object memcpy reads the device pixel from
WordBytes == 4

Min(a, b) == IF a < b THEN a ELSE b

Max(a, b) == IF a > b THEN a ELSE b

\* A 32-bit word (uint32_t, uint_least32_t) is the sequence of its four
\* bytes, the least significant first: a canonical pixel is
\* << blue, green, red, alpha >>.
ZeroWord == << 0, 0, 0, 0 >>

\* v >> n on a uint8_t
ShiftRight(v, n) == v \div (2 ^ n)

RECURSIVE BitOrFrom(_, _, _)
BitOrFrom(a, b, k) ==
  IF a = 0 THEN b
  ELSE IF b = 0 THEN a
  ELSE IF k = 0 THEN 0
  ELSE (IF (a % 2 = 1) \/ (b % 2 = 1) THEN 1 ELSE 0)
       + 2 * BitOrFrom(a \div 2, b \div 2, k - 1)

\* a | b on bytes
BitOr(a, b) == BitOrFrom(a, b, 8)

\* w1 | w2 on words
WordOr(w1, w2) == [k \in 1 .. 4 |-> BitOr(w1[k], w2[k])]

\* (word >> n) & 0xff: the eight bits of the word from bit n on
WordByteAt(word, n) ==
  LET q  == n \div 8
      r  == n % 8
      lo == IF q < 4 THEN word[q + 1] ELSE 0
      hi == IF q + 1 < 4 THEN word[q + 2] ELSE 0
  IN  (lo \div (2 ^ r)) + ((hi * (2 ^ (8 - r))) % 256)

\* v << n as a word, for a uint8_t v and n < 32: the bits shifted past
\* bit 31 are lost
ByteShiftLeft(v, n) ==
  LET q    == n \div 8
      wide == v * (2 ^ (n % 8))
  IN  [k \in 1 .. 4 |->
         IF k - 1 = q THEN wide % 256
         ELSE IF k - 1 = q + 1 THEN wide \div 256
         ELSE 0]

\* byte k (0 = the first in memory) of a word
ByteOf(word, k) == word[k + 1]

(***************************************************************************)
(* Pixel arithmetic.                                                       *)
(***************************************************************************)
\* the denominator of the caller's doubles: n stands for n / Half
Half == 2

\* a channel v = num / den >= 0 of the range 0.0 - 1.0 re-quantized to
\* 0 - 255: v * 255, cut to an integer and kept within 8 bits
ColorChannel(num, den) == Min((255 * num) \div den, 255)

\* PLY_VIDEO_BUFFER_COLOR_TO_PIXEL_VALUE (r, g, b, a), every channel the
\* rational c / den: the channels re-quantized and packed into ARGB32, alpha
\* in bits 24-31, red in 16-23, green in 8-15, blue in 0-7
PLY_VIDEO_BUFFER_COLOR_TO_PIXEL_VALUE(r, g, b, a, den) ==
  WordOr(WordOr(ByteShiftLeft(ColorChannel(a, den), 24),
                ByteShiftLeft(ColorChannel(r, den), 16)),
         WordOr(ByteShiftLeft(ColorChannel(g, den), 8),
                ByteShiftLeft(ColorChannel(b, den), 0)))

\* The second operand's red is read from bit 26 on, as the source does.
blend_two_pixel_values(pixel_value_1, pixel_value_2) ==
  LET alpha   == WordByteAt(pixel_value_1, 24)
      red     == WordByteAt(pixel_value_1, 16)
      green   == WordByteAt(pixel_value_1, 8)
      blue    == WordByteAt(pixel_value_1, 0)
      alpha_2 == WordByteAt(pixel_value_2, 24)
      red_2   == WordByteAt(pixel_value_2, 26)
      green_2 == WordByteAt(pixel_value_2, 8)
      blue_2  == WordByteAt(pixel_value_2, 0)
      \* c/255 + c_2/255 * (1 - alpha/255), as a rational over 255 * 255
      over(c, c_2) == c * 255 + c_2 * (255 - alpha)
  IN  PLY_VIDEO_BUFFER_COLOR_TO_PIXEL_VALUE(over(red, red_2),
                                            over(green, green_2),
                                            over(blue, blue_2),
                                            over(alpha, alpha_2),
                                            255 * 255)

\* opacity is the rational opacity / Half
make_pixel_value_translucent(pixel_value, opacity) ==
  LET alpha == WordByteAt(pixel_value, 24)
      red   == WordByteAt(pixel_value, 16)
      green == WordByteAt(pixel_value, 8)
      blue  == WordByteAt(pixel_value, 0)
  IN  PLY_VIDEO_BUFFER_COLOR_TO_PIXEL_VALUE(red * opacity, green * opacity,
                                            blue * opacity, alpha * opacity,
                                            255 * Half)

\* a conversion that shifts a channel right by its width where the source
\* shifts it by 8 less its width
to_device_shifting_by_width(buffer, pixel_value) ==
  LET a == ShiftRight(WordByteAt(pixel_value, 24), buffer.bits_for_alpha)
      r == ShiftRight(WordByteAt(pixel_value, 16), buffer.bits_for_red)
      g == ShiftRight(WordByteAt(pixel_value, 8), buffer.bits_for_green)
      b == ShiftRight(WordByteAt(pixel_value, 0), buffer.bits_for_blue)
  IN  WordOr(WordOr(ByteShiftLeft(a, buffer.alpha_bit_position),
                    ByteShiftLeft(r, buffer.red_bit_position)),
             WordOr(ByteShiftLeft(g, buffer.green_bit_position),
                    ByteShiftLeft(b, buffer.blue_bit_position)))

\* The channels are uint8_t: the shifted value is stored back into 8 bits.
\* Every device mode of the model has channel lengths of at most 8.
ply_video_buffer_pixel_value_to_device_pixel_value(buffer, pixel_value) ==
  LET a == ShiftRight(WordByteAt(pixel_value, 24), 8 - buffer.bits_for_alpha)
      r == ShiftRight(WordByteAt(pixel_value, 16), 8 - buffer.bits_for_red)
      g == ShiftRight(WordByteAt(pixel_value, 8), 8 - buffer.bits_for_green)
      b == ShiftRight(WordByteAt(pixel_value, 0), 8 - buffer.bits_for_blue)
  IN  WordOr(WordOr(ByteShiftLeft(a, buffer.alpha_bit_position),
                    ByteShiftLeft(r, buffer.red_bit_position)),
             WordOr(ByteShiftLeft(g, buffer.green_bit_position),
                    ByteShiftLeft(b, buffer.blue_bit_position)))

(***************************************************************************)
(* The shadow buffer.                                                      *)
(***************************************************************************)
NULL == << >>

\* shadow_buffer[y * area.width + x]; a read past the allocation is
\* undefined and yields the pixel `wild`
ply_video_buffer_get_value_at_pixel(buffer, x, y, wild) ==
  LET index == y * buffer.area.width + x
  IN  IF index < Len(buffer.shadow_buffer)
      THEN buffer.shadow_buffer[index + 1]
      ELSE wild

\* a write past the allocation is undefined; it leaves the modelled pixels
\* alone (PixelOutOfBounds tells the caller that it happened)
ply_video_buffer_set_value_at_pixel(buffer, x, y, pixel_value) ==
  LET index == y * buffer.area.width + x
  IN  IF index < Len(buffer.shadow_buffer)
      THEN [buffer EXCEPT !.shadow_buffer[index + 1] = pixel_value]
      ELSE buffer

PixelOutOfBounds(buffer, x, y) ==
  y * buffer.area.width + x >= Len(buffer.shadow_buffer)

ply_video_buffer_blend_value_at_pixel(buffer, x, y, pixel_value, wild) ==
  LET old_pixel_value ==
        ply_video_buffer_get_value_at_pixel(buffer, x, y, wild)
      new_pixel_value == blend_two_pixel_values(pixel_value, old_pixel_value)
  IN  ply_video_buffer_set_value_at_pixel(buffer, x, y, new_pixel_value)

\* the k-th pixel (k = 0, 1, ...) the row-major double loop over a
\* width x height block at (x, y) visits
LoopColumn(x, width, k) == x + (k % width)

LoopRow(y, width, k) == y + (k \div width)

\* some pixel of the width x height block at (x, y) lies outside the
\* allocation of the shadow buffer
BlockOutOfBounds(buffer, x, y, width, height) ==
  \E k \in 0 .. (width * height - 1) :
    PixelOutOfBounds(buffer, LoopColumn(x, width, k), LoopRow(y, width, k))

\* the indices y * area.width + x at which the loop over the width x height
\* block at (x, y) reads or writes the shadow buffer
BlockIndices(buffer, x, y, width, height) ==
  { LoopRow(y, width, k) * buffer.area.width + LoopColumn(x, width, k) :
      k \in 0 .. (width * height - 1) }

RECURSIVE SetAreaFrom(_, _, _, _)
SetAreaFrom(buffer, area, pixel_value, k) ==
  IF k >= area.width * area.height THEN buffer
  ELSE SetAreaFrom(
         ply_video_buffer_set_value_at_pixel(
           buffer, LoopColumn(area.x, area.width, k),
           LoopRow(area.y, area.width, k), pixel_value),
         area, pixel_value, k + 1)

ply_video_buffer_set_area_to_pixel_value(buffer, area, pixel_value) ==
  SetAreaFrom(buffer, area, pixel_value, 0)

RECURSIVE BlendAreaFrom(_, _, _, _, _)
BlendAreaFrom(buffer, area, pixel_value, wild, k) ==
  IF k >= area.width * area.height THEN buffer
  ELSE BlendAreaFrom(
         ply_video_buffer_blend_value_at_pixel(
           buffer, LoopColumn(area.x, area.width, k),
           LoopRow(area.y, area.width, k), pixel_value, wild),
         area, pixel_value, wild, k + 1)

ply_video_buffer_blend_area_with_pixel_value(buffer, area, pixel_value, wild) ==
  BlendAreaFrom(buffer, area, pixel_value, wild, 0)


(***************************************************************************)
(* The dirty rectangle and the copy to the device.                         *)
(***************************************************************************)
\* the assertions of ply_video_buffer_add_area_to_flush_area
AddAreaAssertions(buffer, area) ==
  /\ area.x >= buffer.area.x
  /\ area.y >= buffer.area.y
  /\ area.x < buffer.area.width
  /\ area.y < buffer.area.height
  /\ area.width >= 0
  /\ area.height >= 0

ply_video_buffer_add_area_to_flush_area(buffer, area) ==
  [buffer EXCEPT
     !.area_to_flush =
        [x      |-> Min(buffer.area_to_flush.x, area.x),
         y      |-> Min(buffer.area_to_flush.y, area.y),
         width  |-> Max(buffer.area_to_flush.width, area.width),
         height |-> Max(buffer.area_to_flush.height, area.height)]]

\* memcpy (map_address + offset, &device_pixel_value, n) on the mapped
\* bytes: the first WordBytes bytes come from the word, the bytes memcpy
\* reads past the word are indeterminate (stray); bytes past the mapping
\* are not modelled (CopyOutOfBounds tells the caller)
MemcpyToDevice(device_bytes, offset, word, n, stray) ==
  [i \in 1 .. Len(device_bytes) |->
     IF (i - 1 >= offset) /\ (i - 1 < offset + n)
     THEN IF i - 1 - offset < WordBytes
          THEN ByteOf(word, i - 1 - offset)
          ELSE stray
     ELSE device_bytes[i]]

\* a pixel whose four bytes are all `stray`: what a read outside the shadow
\* buffer yields
WildPixel(stray) == << stray, stray, stray, stray >>

\* the byte offset copy_to_device writes pixel k of its loop at
CopyOffset(buffer, x, y, width, k) ==
  LoopRow(y, width, k) * (buffer.area.width * buffer.bytes_per_pixel)
  + LoopColumn(x, width, k) * buffer.bytes_per_pixel

\* the shadow-buffer index copy_to_device reads pixel k of its loop from
CopyIndex(x, y, width, k) ==
  width * LoopRow(y, width, k) + LoopColumn(x, width, k)

RECURSIVE CopyFrom(_, _, _, _, _, _, _, _)
CopyFrom(buffer, device_bytes, x, y, width, height, stray, k) ==
  IF k >= width * height THEN device_bytes
  ELSE LET index == CopyIndex(x, y, width, k)
           pixel_value ==
             IF index < Len(buffer.shadow_buffer)
             THEN buffer.shadow_buffer[index + 1]
             ELSE WildPixel(stray)
           device_pixel_value ==
             ply_video_buffer_pixel_value_to_device_pixel_value(buffer,
                                                                pixel_value)
       IN  CopyFrom(buffer,
                    MemcpyToDevice(device_bytes,
                                   CopyOffset(buffer, x, y, width, k),
                                   device_pixel_value,
                                   buffer.bits_per_pixel, stray),
                    x, y, width, height, stray, k + 1)

\* the mapped bytes after the loop of ply_video_buffer_copy_to_device
ply_video_buffer_copy_to_device(buffer, device_bytes, x, y, width, height, stray) ==
  CopyFrom(buffer, device_bytes, x, y, width, height, stray, 0)

\* the loop reads outside the shadow buffer or writes outside the mapping
CopyOutOfBounds(buffer, device_bytes, x, y, width, height) ==
  \E k \in 0 .. (width * height - 1) :
    \/ CopyIndex(x, y, width, k) >= Len(buffer.shadow_buffer)
    \/ CopyOffset(buffer, x, y, width, k) + buffer.bits_per_pixel
         > Len(device_bytes)

\* the byte ranges <<first, beyond>> the memcpy calls of the loop write
CopyRanges(buffer, x, y, width, height) ==
  { << CopyOffset(buffer, x, y, width, k),
       CopyOffset(buffer, x, y, width, k) + buffer.bits_per_pixel >> :
      k \in 0 .. (width * height - 1) }

EmptyArea == [x |-> 0, y |-> 0, width |-> 0, height |-> 0]

\* What a call does: the context and the mapped bytes after it, its return
\* value, whether one of its assertions failed (the process aborts),
\* whether it ran into undefined behaviour, the dirty rectangle it handed
\* to the copy, the byte ranges the copy wrote, what msync answered
\* ("none" when it was not called) and the shadow-buffer indices its
\* drawing loop read or wrote (none until a drawing operation sets them).
Outcome(buffer, device_bytes, ret, aborts, undefined, flushed, ranges, sync) ==
  [buffer |-> buffer, device_bytes |-> device_bytes, ret |-> ret,
   aborts |-> aborts, undefined |-> undefined, flushed |-> flushed,
   ranges |-> ranges, sync |-> sync, touched |-> {}]

\* The flush of a context whose updates are not paused: the copy of the
\* dirty rectangle and msync.  sync_ok: the device lets msync succeed.
\* Without a mapping (map_address is MAP_FAILED) every byte the copy writes
\* lies outside any mapping and msync, given an address that is not page
\* aligned, fails.
FlushAreaToDevice(buffer, device_bytes, sync_ok, stray) ==
  LET f == buffer.area_to_flush
      mapped == IF buffer.map_address = MAP_FAILED
                THEN << >> ELSE device_bytes
      copied == ply_video_buffer_copy_to_device(
                  buffer, mapped, f.x, f.y, f.width, f.height, stray)
      after == IF buffer.map_address = MAP_FAILED
               THEN device_bytes ELSE copied
      undefined == CopyOutOfBounds(buffer, mapped,
                                   f.x, f.y, f.width, f.height)
      ranges == CopyRanges(buffer, f.x, f.y, f.width, f.height)
  IN  IF ~sync_ok \/ buffer.map_address = MAP_FAILED
      THEN Outcome(buffer, after, FALSE, FALSE, undefined, f, ranges,
                   "failed")
      ELSE Outcome([buffer EXCEPT !.area_to_flush = EmptyArea],
                   after, TRUE, FALSE, undefined, f, ranges, "ok")

\* a flush that copies although updates are paused
flush_ignoring_pause(buffer, device_bytes, sync_ok, stray) ==
  FlushAreaToDevice(buffer, device_bytes, sync_ok, stray)

\* a flush that empties the dirty rectangle although msync failed
flush_forgetting_failure(buffer, device_bytes, sync_ok, stray) ==
  IF buffer.is_paused
  THEN Outcome(buffer, device_bytes, TRUE, FALSE, FALSE, EmptyArea, {},
               "none")
  ELSE [FlushAreaToDevice(buffer, device_bytes, sync_ok, stray)
          EXCEPT !.buffer.area_to_flush = EmptyArea]

\* a flush that leaves the dirty rectangle as it is after it succeeded
flush_keeping_dirty(buffer, device_bytes, sync_ok, stray) ==
  IF buffer.is_paused
  THEN Outcome(buffer, device_bytes, TRUE, FALSE, FALSE, EmptyArea, {},
               "none")
  ELSE [FlushAreaToDevice(buffer, device_bytes, sync_ok, stray)
          EXCEPT !.buffer.area_to_flush = buffer.area_to_flush]

\* a flush that reports success whatever msync answered
flush_reporting_success(buffer, device_bytes, sync_ok, stray) ==
  IF buffer.is_paused
  THEN Outcome(buffer, device_bytes, TRUE, FALSE, FALSE, EmptyArea, {},
               "none")
  ELSE [FlushAreaToDevice(buffer, device_bytes, sync_ok, stray)
          EXCEPT !.ret = TRUE]

ply_video_buffer_flush(buffer, device_bytes, sync_ok, stray) ==
  IF buffer.is_paused
  THEN Outcome(buffer, device_bytes, TRUE, FALSE, FALSE, EmptyArea, {},
               "none")
  ELSE FlushAreaToDevice(buffer, device_bytes, sync_ok, stray)

(***************************************************************************)
(* The device.                                                             *)
(***************************************************************************)
PLY_VIDEO_BUFFER_DEFAULT_FB_DEVICE_NAME == "/dev/fb"

\* The answers of the device to FBIOGET_VSCREENINFO and FBIOGET_FSCREENINFO
\* (struct fb_var_screeninfo, struct fb_fix_screeninfo), one record per
\* video mode the device may be in when it is opened:
\*   a 2 x 2 surface of 32-bit pixels laid out like the canonical pixel;
\*   a 2 x 2 surface of 8-bit RGB 3-3-2 pixels, the scan line padded to 3;
\*   a 2 x 2 surface of 32-bit canonical pixels panned to xoffset 1.
FbModes ==
  { [bits_per_pixel |-> 32, xoffset |-> 0, yoffset |-> 0,
     xres |-> 2, yres |-> 2,
     red    |-> [offset |-> 16, length |-> 8],
     green  |-> [offset |-> 8,  length |-> 8],
     blue   |-> [offset |-> 0,  length |-> 8],
     transp |-> [offset |-> 24, length |-> 8],
     line_length |-> 8],
    [bits_per_pixel |-> 8, xoffset |-> 0, yoffset |-> 0,
     xres |-> 2, yres |-> 2,
     red    |-> [offset |-> 5, length |-> 3],
     green  |-> [offset |-> 2, length |-> 3],
     blue   |-> [offset |-> 0, length |-> 2],
     transp |-> [offset |-> 0, length |-> 0],
     line_length |-> 3],
    [bits_per_pixel |-> 32, xoffset |-> 1, yoffset |-> 0,
     xres |-> 2, yres |-> 2,
     red    |-> [offset |-> 16, length |-> 8],
     green  |-> [offset |-> 8,  length |-> 8],
     blue   |-> [offset |-> 0,  length |-> 8],
     transp |-> [offset |-> 24, length |-> 8],
     line_length |-> 8] }

\* the descriptor open () returns when no other is held: descriptors 0, 1
\* and 2 are the standard streams of the process
DeviceFd == 3

\* the descriptor open () returns when it succeeds: the lowest one that is
\* not open.  fds: the descriptors of the device the process holds
NextFd(fds) ==
  CHOOSE fd \in DeviceFd .. (DeviceFd + Cardinality(fds)) :
    /\ fd \notin fds
    /\ \A lower \in DeviceFd .. (fd - 1) : lower \in fds

\* what every byte of the device's memory holds before this program first
\* writes it
BootByte == 85

\* what memcpy finds behind the device pixel word on the stack
StrayBytes == {0, 165}

\* an open_device that leaves device_fd as it was when open () fails
open_device_keeping_descriptor(buffer, fd) ==
  [buffer EXCEPT !.device_fd = IF fd < 0 THEN @ ELSE fd]

\* fd is what open () returned, -1 when it failed
ply_video_buffer_open_device(buffer, fd) ==
  [buffer EXCEPT !.device_fd = fd]

ply_video_buffer_close_device(buffer) ==
  [buffer EXCEPT
     !.map_address = MAP_FAILED,
     !.device_fd = IF buffer.device_fd >= 0 THEN -1 ELSE @]

\* What the process holds of the device: the descriptors open () gave it
\* and it has not closed, the number of mappings mmap gave it and it has
\* not unmapped, and the length of the mapping map_address points at (0
\* when it points at none).  foreign: the calls <<"close", descriptor>> and
\* <<"munmap", length>> made on what the process does not so hold.
NoResources == [fds |-> {}, maps |-> 0, map_size |-> 0, foreign |-> {}]

\* munmap (buffer->map_address, buffer->size) unmaps the mapping the
\* process holds at map_address
UnmapsHeld(res, buffer) ==
  (res.maps > 0) /\ (buffer.size = res.map_size)

\* the munmap and the close of ply_video_buffer_close_device (buffer)
CloseDeviceReleases(res, buffer) ==
  [fds  |-> IF buffer.device_fd >= 0
            THEN res.fds \ {buffer.device_fd} ELSE res.fds,
   maps |-> IF buffer.map_address # MAP_FAILED /\ UnmapsHeld(res, buffer)
            THEN res.maps - 1 ELSE res.maps,
   map_size |-> 0,
   foreign |->
     res.foreign
     \cup (IF buffer.map_address # MAP_FAILED /\ ~UnmapsHeld(res, buffer)
           THEN { << "munmap", buffer.size >> } ELSE {})
     \cup (IF buffer.device_fd >= 0 /\ buffer.device_fd \notin res.fds
           THEN { << "close", buffer.device_fd >> } ELSE {})]

\* the assignments made from the first ioctl
QueryVariableInfo(buffer, mode) ==
  [buffer EXCEPT
     !.bits_per_pixel = mode.bits_per_pixel,
     !.area = [x |-> mode.xoffset, y |-> mode.yoffset,
               width |-> mode.xres, height |-> mode.yres],
     !.red_bit_position = mode.red.offset,
     !.bits_for_red = mode.red.length,
     !.green_bit_position = mode.green.offset,
     !.bits_for_green = mode.green.length,
     !.blue_bit_position = mode.blue.offset,
     !.bits_for_blue = mode.blue.length,
     !.alpha_bit_position = mode.transp.offset,
     !.bits_for_alpha = mode.transp.length]

\* the assignments made from the second ioctl
QueryFixedInfo(buffer, mode) ==
  [buffer EXCEPT
     !.size = buffer.area.height * mode.line_length,
     !.bytes_per_pixel = mode.line_length \div buffer.area.width]

\* vinfo_ok, finfo_ok: the two ioctl calls succeed
ply_video_buffer_query_device(buffer, mode, vinfo_ok, finfo_ok) ==
  IF ~vinfo_ok THEN buffer
  ELSE IF ~finfo_ok THEN QueryVariableInfo(buffer, mode)
  ELSE QueryFixedInfo(QueryVariableInfo(buffer, mode), mode)

ply_video_buffer_map_to_device(buffer, map_ok) ==
  [buffer EXCEPT !.map_address = IF map_ok THEN Mapped ELSE MAP_FAILED]

\* the bytes the new mapping shows: the device's memory, which keeps what
\* was written to it while its size stays the same
MapBytes(device_bytes, size) ==
  IF Len(device_bytes) = size THEN device_bytes
  ELSE [i \in 1 .. size |-> BootByte]

ply_video_buffer_device_is_open(buffer) ==
  (buffer.device_fd >= 0) /\ (buffer.map_address # MAP_FAILED)

(***************************************************************************)
(* The public drawing operations.                                          *)
(***************************************************************************)
\* an absent area argument; a present one is the set of that one rectangle
NULL_AREA == {}

AreaOf(buffer, area_arg) ==
  IF area_arg = NULL_AREA THEN buffer.area ELSE CHOOSE a \in area_arg : TRUE

\* abs (alpha - 1.0) <= DBL_MIN, where abs is the int function of stdlib.h:
\* its argument alpha - 1.0 is converted to int (truncated toward zero)
\* before the absolute value is taken.  alpha is the rational alpha / Half.
AbsAlphaMinusOne(alpha) ==
  LET diff == alpha - Half
  IN  (IF diff < 0 THEN 0 - diff ELSE diff) \div Half

\* the pixel fill_with_color packs: red, green and blue multiplied by alpha
FillPixel(color) ==
  PLY_VIDEO_BUFFER_COLOR_TO_PIXEL_VALUE(color.red * color.alpha,
                                        color.green * color.alpha,
                                        color.blue * color.alpha,
                                        color.alpha * Half,
                                        Half * Half)

ply_video_buffer_fill_with_color(buffer, device_bytes, area_arg, color, sync_ok, stray) ==
  IF ~ply_video_buffer_device_is_open(buffer)
  THEN Outcome(buffer, device_bytes, FALSE, TRUE, FALSE, EmptyArea, {},
               "none")
  ELSE
    LET area == AreaOf(buffer, area_arg)
        pixel_value == FillPixel(color)
        drawn ==
          IF AbsAlphaMinusOne(color.alpha) <= 0
          THEN ply_video_buffer_set_area_to_pixel_value(buffer, area,
                                                        pixel_value)
          ELSE ply_video_buffer_blend_area_with_pixel_value(
                 buffer, area, pixel_value, WildPixel(stray))
        undefined == BlockOutOfBounds(buffer, area.x, area.y,
                                      area.width, area.height)
        touched == BlockIndices(buffer, area.x, area.y,
                                area.width, area.height)
    IN  IF ~AddAreaAssertions(drawn, area)
        THEN [Outcome(drawn, device_bytes, FALSE, TRUE, undefined,
                      EmptyArea, {}, "none") EXCEPT !.touched = touched]
        ELSE LET flushed == ply_video_buffer_flush(
                              ply_video_buffer_add_area_to_flush_area(drawn,
                                                                      area),
                              device_bytes, sync_ok, stray)
             IN  [flushed EXCEPT !.undefined = @ \/ undefined,
                                 !.touched = touched]

\* data[width * row + column] for pixel k of the loop over the source
\* block; a read past the caller's array is undefined
DataIndex(x, y, width, k) ==
  width * LoopRow(y, width, k) + LoopColumn(x, width, k)

RECURSIVE CompositeFrom(_, _, _, _, _, _, _, _, _, _)
CompositeFrom(buffer, area, x, y, width, height, data, opacity, wild, k) ==
  IF k >= width * height THEN buffer
  ELSE LET index == DataIndex(x, y, width, k)
           pixel_value ==
             make_pixel_value_translucent(
               IF index < Len(data) THEN data[index + 1] ELSE wild, opacity)
       IN  CompositeFrom(
             ply_video_buffer_blend_value_at_pixel(
               buffer,
               area.x + (LoopColumn(x, width, k) - x),
               area.y + (LoopRow(y, width, k) - y),
               pixel_value, wild),
             area, x, y, width, height, data, opacity, wild, k + 1)

ply_video_buffer_fill_with_argb32_data_at_opacity(buffer, device_bytes, area_arg, x, y, width, height, data, opacity, sync_ok, stray) ==
  IF ~ply_video_buffer_device_is_open(buffer)
  THEN Outcome(buffer, device_bytes, FALSE, TRUE, FALSE, EmptyArea, {},
               "none")
  ELSE
    LET area == AreaOf(buffer, area_arg)
        drawn == CompositeFrom(buffer, area, x, y, width, height, data,
                               opacity, WildPixel(stray), 0)
        undefined ==
          \/ BlockOutOfBounds(buffer, area.x, area.y, width, height)
          \/ \E k \in 0 .. (width * height - 1) :
               DataIndex(x, y, width, k) >= Len(data)
        touched == BlockIndices(buffer, area.x, area.y, width, height)
    IN  IF ~AddAreaAssertions(drawn, area)
        THEN [Outcome(drawn, device_bytes, FALSE, TRUE, undefined,
                      EmptyArea, {}, "none") EXCEPT !.touched = touched]
        ELSE LET flushed == ply_video_buffer_flush(
                              ply_video_buffer_add_area_to_flush_area(drawn,
                                                                      area),
                              device_bytes, sync_ok, stray)
             IN  [flushed EXCEPT !.undefined = @ \/ undefined,
                                 !.touched = touched]

ply_video_buffer_fill_with_argb32_data(buffer, device_bytes, area_arg, x, y, width, height, data, sync_ok, stray) ==
  ply_video_buffer_fill_with_argb32_data_at_opacity(
    buffer, device_bytes, area_arg, x, y, width, height, data, Half,
    sync_ok, stray)


(***************************************************************************)
(* Lifecycle operations.                                                   *)
(***************************************************************************)
\* the context calloc and ply_video_buffer_new leave
ply_video_buffer_new(device_name) ==
  [device_name |-> device_name,
   device_fd |-> 0,
   map_address |-> MAP_FAILED,
   size |-> 0,
   shadow_buffer |-> NULL,
   red_bit_position |-> 0, green_bit_position |-> 0,
   blue_bit_position |-> 0, alpha_bit_position |-> 0,
   bits_for_red |-> 0, bits_for_green |-> 0,
   bits_for_blue |-> 0, bits_for_alpha |-> 0,
   bits_per_pixel |-> 0,
   bytes_per_pixel |-> 0,
   area |-> EmptyArea,
   area_to_flush |-> EmptyArea,
   is_paused |-> FALSE]

OpaqueBlack == [red |-> 0, green |-> 0, blue |-> 0, alpha |-> Half]

\* the steps of ply_video_buffer_open that the environment may fail
OpenSteps == {"open", "FBIOGET_VSCREENINFO", "FBIOGET_FSCREENINFO", "mmap",
              "realloc", "msync"}

\* the steps after whose failure ply_video_buffer_open goes to `out` and
\* calls ply_video_buffer_close_device
RollbackSteps == {"open", "FBIOGET_VSCREENINFO", "FBIOGET_FSCREENINFO", "mmap"}

\* The context when ply_video_buffer_open reaches realloc, or `out` after
\* the step `fails` failed: open_device, query_device and map_to_device up
\* to that step.  fd: the descriptor open () returns when it succeeds.
OpenAttempt(buffer, mode, fails, fd) ==
  LET opened == ply_video_buffer_open_device(
                  buffer, IF fails = "open" THEN -1 ELSE fd)
      queried == ply_video_buffer_query_device(
                   opened, mode, fails # "FBIOGET_VSCREENINFO",
                   fails # "FBIOGET_FSCREENINFO")
      mapped == ply_video_buffer_map_to_device(queried, fails # "mmap")
  IN  IF fails = "open" THEN opened
      ELSE IF fails \in {"FBIOGET_VSCREENINFO", "FBIOGET_FSCREENINFO"}
           THEN queried
      ELSE mapped

\* what the process holds after ply_video_buffer_open: the descriptor and
\* the mapping it acquired, less what ply_video_buffer_close_device
\* released after a failure
OpenAcquires(res, buffer, mode, fails, fd) ==
  LET opened == [res EXCEPT !.fds = IF fails = "open" THEN @ ELSE @ \cup {fd}]
  IN  IF fails \in RollbackSteps
      THEN CloseDeviceReleases(opened, OpenAttempt(buffer, mode, fails, fd))
      ELSE [opened EXCEPT
              !.maps = @ + 1,
              !.map_size = OpenAttempt(buffer, mode, fails, fd).size]

\* fails: the step that fails, "none" when every one succeeds.  A failed
\* realloc returns NULL, which memset then writes through: the process
\* dies.  The return value of the initial fill is not looked at.
ply_video_buffer_open(buffer, device_bytes, mode, fails, fd, stray) ==
  LET mapped == OpenAttempt(buffer, mode, fails, fd)
      bytes == MapBytes(device_bytes, mapped.size)
      cleared == [mapped EXCEPT
                    !.shadow_buffer =
                       [i \in 1 .. (mapped.area.width * mapped.area.height)
                          |-> ZeroWord]]
      filled == ply_video_buffer_fill_with_color(cleared, bytes, NULL_AREA,
                                                 OpaqueBlack,
                                                 fails # "msync", stray)
      failed(b) == Outcome(ply_video_buffer_close_device(b), device_bytes,
                           FALSE, FALSE, FALSE, EmptyArea, {}, "none")
  IN  IF fails \in RollbackSteps THEN failed(mapped)
      ELSE IF fails = "realloc"
           THEN Outcome(mapped, bytes, FALSE, TRUE, TRUE, EmptyArea, {},
                        "none")
      ELSE [filled EXCEPT !.ret = TRUE]

ply_video_buffer_pause_updates(buffer) ==
  [buffer EXCEPT !.is_paused = TRUE]

ply_video_buffer_unpause_updates(buffer, device_bytes, sync_ok, stray) ==
  ply_video_buffer_flush([buffer EXCEPT !.is_paused = FALSE],
                         device_bytes, sync_ok, stray)

\* a close that also frees the shadow buffer
close_freeing_shadow_buffer(buffer) ==
  [ply_video_buffer_close_device(buffer) EXCEPT
     !.bytes_per_pixel = 0,
     !.area = EmptyArea,
     !.shadow_buffer = NULL]

\* the assignments of ply_video_buffer_close (its assertion is checked by
\* the action)
ply_video_buffer_close(buffer) ==
  [ply_video_buffer_close_device(buffer) EXCEPT
     !.bytes_per_pixel = 0,
     !.area = EmptyArea]

\* a set_device_name whose comparison is inverted: it stores the name only
\* when the context has it already
set_device_name_when_equal(buffer, device_name) ==
  [buffer EXCEPT
     !.device_name = IF buffer.device_name = device_name
                     THEN device_name ELSE @]

\* the assignment of ply_video_buffer_set_device_name (its assertions are
\* checked by the action)
ply_video_buffer_set_device_name(buffer, device_name) ==
  [buffer EXCEPT
     !.device_name = IF buffer.device_name # device_name
                     THEN device_name ELSE @]

\* ply_video_buffer_free on a context: the context it closes if it is open
ply_video_buffer_free(buffer) ==
  [(IF ply_video_buffer_device_is_open(buffer)
    THEN ply_video_buffer_close(buffer) ELSE buffer)
     EXCEPT !.shadow_buffer = NULL]

(***************************************************************************)
(* The state machine: one context and the calls a caller makes on it.      *)
(***************************************************************************)
VARIABLES
  buffer,        \* the PlyVideoBuffer
  device_bytes,  \* the memory of the device, which a mapping shows
  stray,         \* the byte memcpy finds behind the device pixel word
  status,        \* "running", "aborted" (an assertion failed), "crashed"
                 \* (undefined behaviour ended the process) or "freed"
  last,          \* the last call that returned: what it was and what it did
  calls,         \* calls of open, of set_device_name and of the drawing
                 \* operations made
  sync_failures, \* msync calls that failed
  modified,      \* history: the shadow-buffer indices whose value a draw
                 \* changed since the last flush that was not suppressed
                 \* and succeeded
  paused_drawn,  \* history: the pixels <<x, y>> of the areas drawn since
                 \* updates were paused, none when they are not paused
  held           \* the descriptors and mappings of the device the process
                 \* holds

vars == << buffer, device_bytes, stray, status, last, calls,
           sync_failures, modified, paused_drawn, held >>

Rect(x, y, width, height) ==
  [x |-> x, y |-> y, width |-> width, height |-> height]

\* the colours a caller fills with: opaque red, blue at alpha 0.5 and fully
\* transparent black
OpaqueRed == [red |-> Half, green |-> 0, blue |-> 0, alpha |-> Half]

HalfBlue == [red |-> 0, green |-> 0, blue |-> Half, alpha |-> 1]

Transparent == [red |-> 0, green |-> 0, blue |-> 0, alpha |-> 0]

\* the arguments (area, colour) a caller passes to fill_with_color
FillCalls ==
  { [area |-> a, color |-> OpaqueRed] :
      a \in { NULL_AREA, {Rect(1, 0, 1, 1)}, {Rect(1, 1, 1, 1)},
              {Rect(1, 0, 2, 1)} } }
  \cup
  { [area |-> {Rect(1, 0, 1, 1)}, color |-> c] :
      c \in {HalfBlue, Transparent} }

\* the pixel of the caller's data: opaque green
OpaqueGreen == << 0, 255, 0, 255 >>

\* the caller's width x height array
SourceData(block) == [i \in 1 .. (block.width * block.height) |-> OpaqueGreen]

\* the arguments (area, x, y, width, height) a caller passes to
\* fill_with_argb32_data: the whole surface, a block of the size of the
\* area, a block at a non-zero source origin, a block larger than the area
CompositeCalls ==
  { [area |-> NULL_AREA, block |-> Rect(0, 0, 2, 2)],
    [area |-> {Rect(1, 0, 1, 1)}, block |-> Rect(0, 0, 1, 1)],
    [area |-> {Rect(0, 0, 1, 1)}, block |-> Rect(1, 0, 1, 1)],
    [area |-> {Rect(1, 1, 1, 1)}, block |-> Rect(0, 0, 2, 2)] }

\* the arguments a caller passes to fill_with_argb32_data_at_opacity, the
\* opacity 0.5
OpacityCalls ==
  { [area |-> {Rect(1, 0, 1, 1)}, block |-> Rect(0, 0, 1, 1), opacity |-> 1] }

\* What `last` tells of a call: the operation, the area and the pixel it
\* drew with, the dirty rectangle when it was entered (before), what it
\* returned, whether it ran into undefined behaviour, of its flush the
\* rectangle handed to the copy, the byte ranges written and the answer of
\* msync, the device name it was given ("" when it takes none), and the
\* shadow-buffer indices its drawing loop read or wrote.
NoCall ==
  [op |-> "new", area |-> EmptyArea, pixel |-> ZeroWord,
   before |-> EmptyArea, ret |-> TRUE, undefined |-> FALSE,
   flushed |-> EmptyArea, ranges |-> {}, sync |-> "none", name |-> "",
   touched |-> {}]

CallRecord(op, area, pixel, outcome) ==
  [op |-> op, area |-> area, pixel |-> pixel,
   before |-> buffer.area_to_flush, ret |-> outcome.ret,
   undefined |-> outcome.undefined, flushed |-> outcome.flushed,
   ranges |-> outcome.ranges, sync |-> outcome.sync, name |-> "",
   touched |-> outcome.touched]

\* the pixels <<x, y>> of a rectangle
PixelsOf(area) ==
  { << c, r >> : c \in area.x .. (area.x + area.width - 1),
                 r \in area.y .. (area.y + area.height - 1) }

\* the indices at which two shadow buffers of one size differ
ChangedIndices(before, after) ==
  { i \in 0 .. (Len(after) - 1) : before[i + 1] # after[i + 1] }

Init ==
  /\ buffer = ply_video_buffer_new(PLY_VIDEO_BUFFER_DEFAULT_FB_DEVICE_NAME)
  /\ device_bytes = << >>
  /\ stray \in StrayBytes
  /\ status = "running"
  /\ last = NoCall
  /\ calls = 0
  /\ sync_failures = 0
  /\ modified = {}
  /\ paused_drawn = {}
  /\ held = NoResources

\* the process ends: an assertion failed, or undefined behaviour took the
\* outcome of ending it
Dies(how) ==
  /\ status' = how
  /\ UNCHANGED << buffer, device_bytes, stray, last, calls,
                  sync_failures, modified, paused_drawn, held >>

\* what a call leaves when it returns; sync_failed: its msync failed
Returns(outcome, record, sync_failed) ==
  /\ buffer' = outcome.buffer
  /\ device_bytes' = outcome.device_bytes
  /\ last' = record
  /\ sync_failures' =
       IF sync_failed THEN sync_failures + 1 ELSE sync_failures
  /\ UNCHANGED << stray, status >>

\* what the device may let msync answer to a flush that is to run now (a
\* suppressed flush and a flush without a mapping leave it nothing to
\* decide)
SyncResults(paused, map_address) ==
  IF paused \/ map_address = MAP_FAILED THEN {TRUE}
  ELSE IF sync_failures < MaxSyncFailures THEN BOOLEAN
  ELSE {TRUE}

\* a draw call with the outcome `outcome` on the area `area`: it ends the
\* process (an assertion, or undefined behaviour that does) or returns
Draw(outcome, op, area, pixel, sync_ok) ==
  \/ /\ outcome.undefined
     /\ Dies("crashed")
  \/ /\ outcome.aborts
     /\ Dies("aborted")
  \/ /\ ~outcome.aborts
     /\ Returns(outcome, CallRecord(op, area, pixel, outcome), ~sync_ok)
     /\ calls' = calls + 1
     /\ modified' =
          IF outcome.sync = "ok" THEN {}
          ELSE modified \cup ChangedIndices(buffer.shadow_buffer,
                                            outcome.buffer.shadow_buffer)
     /\ paused_drawn' =
          IF buffer.is_paused
          THEN paused_drawn \cup PixelsOf(area)
          ELSE paused_drawn
     /\ held' = held

FillWithColor ==
  /\ status = "running"
  /\ calls < MaxCalls
  /\ \E call \in FillCalls,
        sync_ok \in SyncResults(buffer.is_paused, buffer.map_address) :
       \E outcome \in { ply_video_buffer_fill_with_color(
                          buffer, device_bytes, call.area, call.color,
                          sync_ok, stray) } :
         Draw(outcome, "fill_with_color", AreaOf(buffer, call.area),
              FillPixel(call.color), sync_ok)

FillWithArgb32Data ==
  /\ status = "running"
  /\ calls < MaxCalls
  /\ \E call \in CompositeCalls,
        sync_ok \in SyncResults(buffer.is_paused, buffer.map_address) :
       \E outcome \in { ply_video_buffer_fill_with_argb32_data(
                          buffer, device_bytes, call.area, call.block.x,
                          call.block.y, call.block.width, call.block.height,
                          SourceData(call.block), sync_ok, stray) } :
         Draw(outcome, "fill_with_argb32_data", AreaOf(buffer, call.area),
              OpaqueGreen, sync_ok)

FillWithArgb32DataAtOpacity ==
  /\ status = "running"
  /\ calls < MaxCalls
  /\ \E call \in OpacityCalls,
        sync_ok \in SyncResults(buffer.is_paused, buffer.map_address) :
       \E outcome \in { ply_video_buffer_fill_with_argb32_data_at_opacity(
                          buffer, device_bytes, call.area, call.block.x,
                          call.block.y, call.block.width, call.block.height,
                          SourceData(call.block), call.opacity, sync_ok,
                          stray) } :
         Draw(outcome, "fill_with_argb32_data_at_opacity",
              AreaOf(buffer, call.area),
              make_pixel_value_translucent(OpaqueGreen, call.opacity),
              sync_ok)

Open ==
  /\ status = "running"
  /\ calls < MaxCalls
  /\ \E mode \in FbModes, fails \in OpenSteps \cup {"none"} :
     \E outcome \in { ply_video_buffer_open(buffer, device_bytes, mode,
                                            fails, NextFd(held.fds),
                                            stray) } :
       LET area == outcome.buffer.area
           sync_failed == (fails = "msync") /\ ~buffer.is_paused
       IN  \/ /\ outcome.undefined
              /\ Dies("crashed")
           \/ /\ ~outcome.aborts
              /\ sync_failed => sync_failures < MaxSyncFailures
              /\ Returns(outcome,
                         CallRecord("open", area, FillPixel(OpaqueBlack),
                                    outcome),
                         sync_failed)
              /\ calls' = calls + 1
              /\ modified' =
                   IF ~outcome.ret THEN modified
                   ELSE IF outcome.sync = "ok" THEN {}
                   ELSE { i \in 0 .. (Len(outcome.buffer.shadow_buffer) - 1) :
                            outcome.buffer.shadow_buffer[i + 1] # ZeroWord }
              /\ paused_drawn' =
                   IF outcome.ret /\ buffer.is_paused
                   THEN PixelsOf(area) ELSE {}
              /\ held' = OpenAcquires(held, buffer, mode, fails,
                                      NextFd(held.fds))

PauseUpdates ==
  /\ status = "running"
  /\ buffer' = ply_video_buffer_pause_updates(buffer)
  /\ last' = [NoCall EXCEPT !.op = "pause_updates"]
  /\ paused_drawn' = IF buffer.is_paused THEN paused_drawn ELSE {}
  /\ UNCHANGED << device_bytes, stray, status, calls, sync_failures,
                  modified, held >>

UnpauseUpdates ==
  /\ status = "running"
  /\ \E sync_ok \in SyncResults(FALSE, buffer.map_address) :
       \E outcome \in { ply_video_buffer_unpause_updates(
                          buffer, device_bytes, sync_ok, stray) } :
           \/ /\ outcome.undefined
              /\ Dies("crashed")
           \/ /\ Returns(outcome,
                         CallRecord("unpause_updates", EmptyArea, ZeroWord,
                                    outcome),
                         ~sync_ok)
              /\ modified' = IF outcome.sync = "ok" THEN {} ELSE modified
              /\ paused_drawn' = {}
              /\ calls' = calls
              /\ held' = held

\* ply_video_buffer_close asserts that the device is open
Close ==
  /\ status = "running"
  /\ IF ~ply_video_buffer_device_is_open(buffer) THEN Dies("aborted")
     ELSE /\ buffer' = ply_video_buffer_close(buffer)
          /\ held' = CloseDeviceReleases(held, buffer)
          /\ last' = [NoCall EXCEPT !.op = "close"]
          /\ paused_drawn' = {}
          /\ UNCHANGED << device_bytes, stray, status, calls,
                          sync_failures, modified >>

\* the names a caller gives the device: two nodes of the one framebuffer
DeviceNames == {PLY_VIDEO_BUFFER_DEFAULT_FB_DEVICE_NAME, "/dev/fb0"}

\* ply_video_buffer_set_device_name asserts that the device is not open
SetDeviceName ==
  /\ status = "running"
  /\ calls < MaxCalls
  /\ \E device_name \in DeviceNames :
       IF ply_video_buffer_device_is_open(buffer) THEN Dies("aborted")
       ELSE /\ buffer' = ply_video_buffer_set_device_name(buffer, device_name)
            /\ last' = [NoCall EXCEPT !.op = "set_device_name",
                                      !.name = device_name]
            /\ calls' = calls + 1
            /\ UNCHANGED << device_bytes, stray, status, sync_failures,
                            modified, paused_drawn, held >>

Free ==
  /\ status = "running"
  /\ buffer' = ply_video_buffer_free(buffer)
  /\ held' = IF ply_video_buffer_device_is_open(buffer)
             THEN CloseDeviceReleases(held, buffer) ELSE held
  /\ status' = "freed"
  /\ last' = [NoCall EXCEPT !.op = "free"]
  /\ UNCHANGED << device_bytes, stray, calls, sync_failures, modified,
                  paused_drawn >>

Next ==
  \/ Open
  \/ Close
  \/ PauseUpdates
  \/ UnpauseUpdates
  \/ FillWithColor
  \/ FillWithArgb32Data
  \/ FillWithArgb32DataAtOpacity
  \/ SetDeviceName
  \/ Free

Spec == Init /\ [][Next]_vars

(***************************************************************************)
(* The pixel codec on its own: a context that has queried a device of some *)
(* pixel layout, and the conversions of canonical pixels it is asked for.  *)
(***************************************************************************)
Field(offset, length) == [offset |-> offset, length |-> length]

\* the answer of a one-pixel device to FBIOGET_VSCREENINFO
Layout(bits_per_pixel, red, green, blue, transp) ==
  [bits_per_pixel |-> bits_per_pixel, xoffset |-> 0, yoffset |-> 0,
   xres |-> 1, yres |-> 1,
   red |-> red, green |-> green, blue |-> blue, transp |-> transp,
   line_length |-> bits_per_pixel \div 8]

\* pixel layouts whose channels do not overlap: ARGB 8-8-8-8, RGBA 8-8-8-8,
\* RGB 5-6-5, ARGB 1-5-5-5, ARGB 4-4-4-4, RGB 3-3-2, 7-bit channels that
\* straddle the bytes of the word, and a layout without any channel
CodecLayouts ==
  { Layout(32, Field(16, 8), Field(8, 8), Field(0, 8), Field(24, 8)),
    Layout(32, Field(24, 8), Field(16, 8), Field(8, 8), Field(0, 8)),
    Layout(16, Field(11, 5), Field(5, 6), Field(0, 5), Field(0, 0)),
    Layout(16, Field(10, 5), Field(5, 5), Field(0, 5), Field(15, 1)),
    Layout(16, Field(8, 4), Field(4, 4), Field(0, 4), Field(12, 4)),
    Layout(8, Field(5, 3), Field(2, 3), Field(0, 2), Field(0, 0)),
    Layout(32, Field(21, 7), Field(13, 7), Field(5, 7), Field(1, 2)),
    Layout(8, Field(0, 0), Field(0, 0), Field(0, 0), Field(0, 0)) }

\* the values of a channel of the canonical pixels converted
ChannelValues == {0, 1, 127, 128, 165, 255}

CodecInit ==
  /\ \E layout \in CodecLayouts :
       buffer = QueryVariableInfo(
                  ply_video_buffer_new(PLY_VIDEO_BUFFER_DEFAULT_FB_DEVICE_NAME),
                  layout)
  /\ device_bytes = << >>
  /\ stray \in StrayBytes
  /\ status = "running"
  /\ last = NoCall
  /\ calls = 0
  /\ sync_failures = 0
  /\ modified = {}
  /\ paused_drawn = {}
  /\ held = NoResources

\* one conversion: device_bytes receives the bytes of the device pixel.  A
\* conversion does not depend on the ones before it: a behaviour makes one.
ToDevice ==
  /\ last = NoCall
  /\ \E blue \in ChannelValues, green \in ChannelValues,
        red \in ChannelValues, alpha \in ChannelValues :
       /\ device_bytes' =
            ply_video_buffer_pixel_value_to_device_pixel_value(
              buffer, << blue, green, red, alpha >>)
       /\ last' = [NoCall EXCEPT !.op = "to_device",
                                 !.pixel = << blue, green, red, alpha >>]
  /\ UNCHANGED << buffer, stray, status, calls, sync_failures, modified,
                  paused_drawn, held >>

CodecNext == ToDevice

CodecSpec == CodecInit /\ [][CodecNext]_vars

(***************************************************************************)
(* What the properties speak of.                                           *)
(***************************************************************************)
DrawOps ==
  { "fill_with_color", "fill_with_argb32_data",
    "fill_with_argb32_data_at_opacity" }

\* the calls whose return value is that of their flush
FlushOps == DrawOps \cup {"unpause_updates"}

\* the bytes of a scan line of the device: query_device computes size as
\* height * line_length
Stride(b) == b.size \div b.area.height

\* rectangle `inner` lies inside rectangle `outer`; the empty rectangle
\* lies inside every rectangle
Inside(inner, outer) ==
  \/ inner.width = 0
  \/ inner.height = 0
  \/ /\ inner.x >= outer.x
     /\ inner.y >= outer.y
     /\ inner.x + inner.width <= outer.x + outer.width
     /\ inner.y + inner.height <= outer.y + outer.height

\* pixel <<x, y>> lies inside the rectangle
InRect(p, area) == p \in PixelsOf(area)

\* rectangle `outer` covers every pixel of rectangle `inner`
Covers(outer, inner) == PixelsOf(inner) \subseteq PixelsOf(outer)

\* the smallest rectangle that covers the rectangles a and b
Cover(a, b) ==
  Rect(Min(a.x, b.x), Min(a.y, b.y),
       Max(a.x + a.width, b.x + b.width) - Min(a.x, b.x),
       Max(a.y + a.height, b.y + b.height) - Min(a.y, b.y))

\* the pixels of the surface: column x of row y is shadow_buffer[y * width
\* + x]
SurfacePixels(b) ==
  { << x, y >> : x \in 0 .. (b.area.width - 1),
                 y \in 0 .. (b.area.height - 1) }

\* the shadow-buffer index of pixel <<x, y>>
ShadowIndex(b, p) == p[2] * b.area.width + p[1]

\* pixel <<x, y>> of the shadow buffer holds pixel_value
ShadowHolds(b, p, pixel_value) ==
  /\ ShadowIndex(b, p) < Len(b.shadow_buffer)
  /\ b.shadow_buffer[ShadowIndex(b, p) + 1] = pixel_value

\* device memory holds, in the bytes_per_pixel bytes at row * stride +
\* column * bytes_per_pixel, the device encoding of the shadow-buffer value
\* of pixel <<x, y>>
Mirrored(b, bytes, p) ==
  LET offset == p[2] * Stride(b) + p[1] * b.bytes_per_pixel
  IN  /\ ShadowIndex(b, p) < Len(b.shadow_buffer)
      /\ offset + b.bytes_per_pixel <= Len(bytes)
      /\ \A k \in 1 .. b.bytes_per_pixel :
           bytes[offset + k] =
             ply_video_buffer_pixel_value_to_device_pixel_value(
               b, b.shadow_buffer[ShadowIndex(b, p) + 1])[k]

\* a pixel value whose alpha is 255
IsOpaque(pixel_value) == ByteOf(pixel_value, 3) = 255

(***************************************************************************)
(* C1 .. C10                                                               *)
(***************************************************************************)

\* C1: after a drawing operation returned true on an open context whose
\* updates are not paused, for an area inside the visible area, every pixel
\* of that area holds in device memory, at row * stride + column *
\* bytes_per_pixel, the device encoding of its shadow-buffer value.
C1_DeviceMirrorsShadow ==
  ( /\ status = "running"
    /\ last.op \in DrawOps
    /\ last.ret
    /\ ~buffer.is_paused
    /\ Inside(last.area, buffer.area) )
  => \A p \in PixelsOf(last.area) : Mirrored(buffer, device_bytes, p)

\* C2: while the device is open, every shadow-buffer pixel whose value a
\* draw changed since the last flush that was not suppressed and succeeded
\* lies inside the dirty rectangle.
C2_DirtyCoversModified ==
  ( /\ status = "running"
    /\ ply_video_buffer_device_is_open(buffer) )
  => \A i \in modified :
       InRect(<< i % buffer.area.width, i \div buffer.area.width >>,
              buffer.area_to_flush)

\* C3: when fill_with_color (A) entered with an empty dirty rectangle and
\* fill_with_color (B) follow each other while updates are paused, A and B
\* inside the visible area and not overlapping, the dirty rectangle after B
\* is the smallest rectangle that covers A and B.
C3_DirtyUnionIsCover ==
  [][ ( /\ status' = "running"
        /\ buffer.is_paused
        /\ last.op = "fill_with_color"
        /\ last.before = EmptyArea
        /\ last'.op = "fill_with_color"
        /\ calls' = calls + 1
        /\ Inside(last.area, buffer.area)
        /\ Inside(last'.area, buffer.area)
        /\ last.area.width > 0 /\ last.area.height > 0
        /\ last'.area.width > 0 /\ last'.area.height > 0
        /\ PixelsOf(last.area) \cap PixelsOf(last'.area) = {} )
      => buffer'.area_to_flush = Cover(last.area, last'.area) ]_vars

\* C4: in every state the dirty rectangle is a sub-rectangle of the visible
\* area.
C4_DirtyInsideVisible ==
  status = "running" => Inside(buffer.area_to_flush, buffer.area)

\* C5: a drawing operation called while updates are paused leaves every
\* byte of device memory as it was and writes none, returns true, leaves a
\* dirty rectangle that covers the one before and the width and height of
\* its area, and still draws: when it draws an opaque pixel and stays
\* inside the surface and the caller's data, every pixel of its area holds
\* that pixel in the shadow buffer afterwards.
C5_PauseSuppressesDeviceWrites ==
  [][ ( /\ status' = "running"
        /\ buffer.is_paused
        /\ last'.op \in DrawOps
        /\ calls' = calls + 1 )
      => /\ device_bytes' = device_bytes
         /\ last'.ranges = {}
         /\ last'.ret
         /\ buffer'.is_paused
         /\ Covers(buffer'.area_to_flush, buffer.area_to_flush)
         /\ buffer'.area_to_flush.width >= last'.area.width
         /\ buffer'.area_to_flush.height >= last'.area.height
         /\ (~last'.undefined /\ IsOpaque(last'.pixel))
            => \A p \in PixelsOf(last'.area) :
                 ShadowHolds(buffer', p, last'.pixel) ]_vars

\* a paused fill with opaque red has returned: the shadow buffer holds red
\* in a pixel the device does not show, and the dirty rectangle is kept
C5_Witness ==
  /\ status = "running"
  /\ buffer.is_paused
  /\ last.op = "fill_with_color"
  /\ last.pixel = FillPixel(OpaqueRed)
  /\ ~last.undefined
  /\ last.ret
  /\ buffer.area_to_flush.width > 0
  /\ \E p \in PixelsOf(last.area) :
       /\ ShadowHolds(buffer, p, FillPixel(OpaqueRed))
       /\ ~Mirrored(buffer, device_bytes, p)

\* C6: when unpause_updates returns true on an open context whose updates
\* were paused, updates are no longer paused, the rectangle its flush wrote
\* covers every pixel of every area drawn while they were paused, and each
\* of these pixels holds in device memory the device encoding of its
\* shadow-buffer value.
C6_UnpauseFlushesPausedDraws ==
  [][ ( /\ status' = "running"
        /\ buffer.is_paused
        /\ ply_video_buffer_device_is_open(buffer)
        /\ last'.op = "unpause_updates"
        /\ last'.ret )
      => /\ ~buffer'.is_paused
         /\ \A p \in paused_drawn \cap SurfacePixels(buffer) :
              /\ InRect(p, last'.flushed)
              /\ Mirrored(buffer', device_bytes', p) ]_vars

\* C7: a flush that is not suppressed and whose msync succeeds returns
\* success and leaves the dirty rectangle (0, 0, 0, 0); one whose msync
\* fails returns failure and leaves the dirty rectangle it was to copy, and
\* the flush of an unpause_updates that follows copies that same rectangle.
\* (ply_video_buffer_open drops the return value of its flush: of an open
\* only the dirty rectangle is looked at.)
C7_FlushOutcomeAndDirty ==
  [][ ( /\ status' = "running"
        /\ last'.op \in FlushOps \cup {"open"}
        /\ last'.sync # "none" )
      => /\ last'.sync = "ok"
            => /\ last'.op \in FlushOps => last'.ret
               /\ buffer'.area_to_flush = EmptyArea
         /\ last'.sync = "failed"
            => /\ last'.op \in FlushOps => ~last'.ret
               /\ buffer'.area_to_flush = last'.flushed
         /\ ( /\ last.op \in FlushOps \cup {"open"}
              /\ last.sync = "failed"
              /\ last'.op = "unpause_updates" )
            => last'.flushed = last.flushed ]_vars

\* the flush of a draw failed in msync: the draw returned false and the
\* dirty rectangle, which is not empty, is the one the flush was to copy
C7_Witness ==
  /\ status = "running"
  /\ last.op \in DrawOps
  /\ last.sync = "failed"
  /\ ~last.ret
  /\ buffer.area_to_flush = last.flushed
  /\ buffer.area_to_flush.width > 0
  /\ buffer.area_to_flush.height > 0

\* C8 as the specification states it: when unpause_updates directly follows
\* a call that flushed (a draw, an unpause_updates or a successful open),
\* both calls return success and the second writes no byte of device
\* memory.
C8_IdempotentFlushAsStated ==
  [][ ( /\ status' = "running"
        /\ ply_video_buffer_device_is_open(buffer)
        /\ last.op \in FlushOps
        /\ last'.op = "unpause_updates" )
      => /\ last.ret
         /\ last'.ret
         /\ last'.ranges = {}
         /\ device_bytes' = device_bytes ]_vars

\* C8: when unpause_updates directly follows a call whose flush was not
\* suppressed and whose msync succeeded (a draw, an unpause_updates or an
\* open), the first call returned success, the second writes no byte of
\* device memory, and it returns success when its own msync succeeds.
C8_IdempotentFlush ==
  [][ ( /\ status' = "running"
        /\ last.op \in FlushOps \cup {"open"}
        /\ last.sync = "ok"
        /\ last'.op = "unpause_updates" )
      => /\ last.ret
         /\ last'.ranges = {}
         /\ device_bytes' = device_bytes
         /\ last'.flushed = EmptyArea
         /\ last'.sync = "ok" => last'.ret ]_vars

\* unpause_updates has returned success on an open context that it entered
\* with an empty dirty rectangle after a draw was flushed: it wrote nothing
\* and the device still shows the pixel drawn
C8_Witness ==
  /\ status = "running"
  /\ ply_video_buffer_device_is_open(buffer)
  /\ last.op = "unpause_updates"
  /\ last.before = EmptyArea
  /\ last.sync = "ok"
  /\ last.ret
  /\ last.ranges = {}
  /\ calls >= 2
  /\ modified = {}
  /\ \E p \in SurfacePixels(buffer) :
       /\ ShadowHolds(buffer, p, FillPixel(OpaqueRed))
       /\ Mirrored(buffer, device_bytes, p)

\* C9: when open returns false the mapping is unmapped, the descriptor is
\* closed and device_is_open is false; it returns true only when every
\* step, the flush of the initial fill included, succeeded.
C9_OpenAllOrNothing ==
  ( /\ status = "running"
    /\ last.op = "open" )
  => IF last.ret
     THEN /\ ply_video_buffer_device_is_open(buffer)
          /\ last.sync # "failed"
     ELSE /\ ~ply_video_buffer_device_is_open(buffer)
          /\ buffer.map_address = MAP_FAILED
          /\ buffer.device_fd < 0

\* C10: when open has returned true, updates are not paused, every pixel of
\* the surface is opaque black in the shadow buffer and holds the device
\* encoding of opaque black in device memory.
C10_OpenPaintsBlack ==
  ( /\ status = "running"
    /\ last.op = "open"
    /\ last.ret )
  => /\ ~buffer.is_paused
     /\ \A p \in PixelsOf(buffer.area) :
          /\ ShadowHolds(buffer, p, FillPixel(OpaqueBlack))
          /\ Mirrored(buffer, device_bytes, p)

(***************************************************************************)
(* C11 .. C20                                                              *)
(***************************************************************************)

\* the process holds no descriptor and no mapping of the device but those
\* the context refers to: at most one of each while it runs, none once the
\* context is freed
OwnsWhatItHolds ==
  /\ status = "running"
     => /\ held.fds \subseteq {buffer.device_fd}
        /\ held.maps <= 1
        /\ held.maps = 1 => buffer.map_address # MAP_FAILED
  /\ status = "freed"
     => held = NoResources

\* C11: open on a context that is open returns false and acquires nothing,
\* and after every call the process holds at most one descriptor and one
\* mapping of the device, both referred to by the context, and none once
\* the context is freed.
C11_NoSecondOpen ==
  [][ /\ ( /\ status' = "running"
           /\ ply_video_buffer_device_is_open(buffer)
           /\ last'.op = "open"
           /\ calls' = calls + 1 )
         => /\ ~last'.ret
            /\ held' = held
      /\ OwnsWhatItHolds' ]_vars

\* C12 as the specification states it: in every state the mapped region is
\* present if and only if the shadow buffer is allocated.
C12_BothOrNeitherAsStated ==
  status = "running"
  => (buffer.map_address # MAP_FAILED <=> buffer.shadow_buffer # NULL)

\* C12: in every state a present mapped region implies an allocated shadow
\* buffer; both are absent after construct, both are present after a
\* successful open, the mapped region is absent after a failed open, and
\* after close the mapped region is absent and the shadow buffer is still
\* allocated.
C12_MappedImpliesShadow ==
  status = "running"
  => /\ buffer.map_address # MAP_FAILED => buffer.shadow_buffer # NULL
     /\ last.op = "new"
        => /\ buffer.map_address = MAP_FAILED
           /\ buffer.shadow_buffer = NULL
     /\ (last.op = "open" /\ last.ret)
        => /\ buffer.map_address # MAP_FAILED
           /\ buffer.shadow_buffer # NULL
     /\ (last.op = "open" /\ ~last.ret)
        => buffer.map_address = MAP_FAILED
     /\ last.op = "close"
        => /\ buffer.map_address = MAP_FAILED
           /\ buffer.shadow_buffer # NULL

\* close has returned: the mapping is gone, the descriptor is closed and
\* the shadow buffer still holds the pixels of the surface
C12_Witness ==
  /\ status = "running"
  /\ last.op = "close"
  /\ buffer.map_address = MAP_FAILED
  /\ held = NoResources
  /\ buffer.shadow_buffer # NULL

\* the value of pixel <<x, y>> of the surface in the shadow buffer of b
ShadowAt(b, p) == b.shadow_buffer[ShadowIndex(b, p) + 1]

\* C13: when fill_with_color is called with alpha 1.0, every pixel of the
\* surface inside the area holds the packed colour in the shadow buffer
\* afterwards, whatever it held before, and every pixel of the surface
\* outside the area holds what it held before.
C13_OpaqueFillOverwrites ==
  [][ ( /\ status' = "running"
        /\ last'.op = "fill_with_color"
        /\ calls' = calls + 1
        /\ IsOpaque(last'.pixel) )
      => \A p \in SurfacePixels(buffer) :
           ShadowAt(buffer', p) =
             IF InRect(p, last'.area) THEN last'.pixel
             ELSE ShadowAt(buffer, p) ]_vars

\* C14: when fill_with_color is called with an alpha below 1.0 (0.0 or
\* 0.5) on an area inside the surface, every pixel of the area holds
\* afterwards the blend (blend_two_pixel_values) of the packed colour with
\* the value the pixel held before.
C14_TranslucentFillBlends ==
  [][ ( /\ status' = "running"
        /\ last'.op = "fill_with_color"
        /\ calls' = calls + 1
        /\ ~IsOpaque(last'.pixel)
        /\ PixelsOf(last'.area) \subseteq SurfacePixels(buffer) )
      => \A p \in PixelsOf(last'.area) :
           ShadowAt(buffer', p) =
             blend_two_pixel_values(last'.pixel, ShadowAt(buffer, p)) ]_vars

\* C15: blending a fully transparent source (the pixel 0x00000000) onto a
\* pixel yields that pixel: a fill_with_color with the colour (0, 0, 0) at
\* alpha 0.0 on an area inside the surface, which blends the pixel
\* 0x00000000 onto every pixel of the area, leaves every pixel of the shadow
\* buffer as it was.
C15_TransparentBlendIsIdentity ==
  [][ ( /\ status' = "running"
        /\ last'.op = "fill_with_color"
        /\ calls' = calls + 1
        /\ last'.pixel = ZeroWord
        /\ PixelsOf(last'.area) \subseteq SurfacePixels(buffer) )
      => /\ \A p \in PixelsOf(last'.area) :
              blend_two_pixel_values(ZeroWord, ShadowAt(buffer, p)) =
                ShadowAt(buffer, p)
         /\ buffer'.shadow_buffer = buffer.shadow_buffer ]_vars

\* the length-bit field of a device pixel that begins at bit `offset`
FieldOf(word, offset, length) == WordByteAt(word, offset) % (2 ^ length)

\* v & ~((1 << (8 - w)) - 1): the upper w bits of the 8-bit value v
UpperBits(v, w) == v - (v % (2 ^ (8 - w)))

\* the channels of a context: where the canonical pixel holds the channel,
\* and where and how wide the device pixel holds it
ChannelsOf(b) ==
  { [shift |-> 24, offset |-> b.alpha_bit_position, length |-> b.bits_for_alpha],
    [shift |-> 16, offset |-> b.red_bit_position, length |-> b.bits_for_red],
    [shift |-> 8, offset |-> b.green_bit_position, length |-> b.bits_for_green],
    [shift |-> 0, offset |-> b.blue_bit_position, length |-> b.bits_for_blue] }

\* C16: for every channel of width w, the w-bit field of the device pixel
\* at the channel's offset, shifted left by 8 - w, is the upper w bits of
\* the channel's 8-bit value in the canonical pixel, whatever the other
\* channels hold.
C16_TruncationRoundTrip ==
  last.op = "to_device"
  => \A c \in ChannelsOf(buffer) :
       FieldOf(device_bytes, c.offset, c.length) * (2 ^ (8 - c.length)) =
         UpperBits(WordByteAt(last.pixel, c.shift), c.length)

\* a pixel whose channels all hold 0xA5 has been converted for RGB 5-6-5:
\* the red field reads back 0xA0 and the green field 0xA4, the lower bits
\* are lost
C16_Witness ==
  /\ last.op = "to_device"
  /\ last.pixel = << 165, 165, 165, 165 >>
  /\ buffer.bits_for_red = 5
  /\ buffer.bits_for_green = 6
  /\ FieldOf(device_bytes, buffer.red_bit_position, buffer.bits_for_red)
       * (2 ^ (8 - buffer.bits_for_red)) = 160
  /\ FieldOf(device_bytes, buffer.green_bit_position, buffer.bits_for_green)
       * (2 ^ (8 - buffer.bits_for_green)) = 164

\* C17: device_is_open is false on a fresh context, true after an open of
\* a closed context exactly when that open returned true, false after
\* close, false as long as no open is called, and true from a successful
\* open on until the next close; whenever it is false, the descriptor the
\* context refers to is not one the process holds open.
C17_IsOpenTracksLifecycle ==
  [][ /\ last.op = "new" => ~ply_video_buffer_device_is_open(buffer)
      /\ status' = "running"
         => /\ ( /\ ~ply_video_buffer_device_is_open(buffer)
                 /\ last'.op = "open"
                 /\ calls' = calls + 1 )
               => (ply_video_buffer_device_is_open(buffer') <=> last'.ret)
            /\ ( /\ ~ply_video_buffer_device_is_open(buffer)
                 /\ last'.op # "open" )
               => ~ply_video_buffer_device_is_open(buffer')
            /\ last'.op = "close"
               => ~ply_video_buffer_device_is_open(buffer')
            /\ ( /\ ply_video_buffer_device_is_open(buffer)
                 /\ last'.op # "close" )
               => ply_video_buffer_device_is_open(buffer')
            /\ ~ply_video_buffer_device_is_open(buffer')
               => buffer'.device_fd \notin held'.fds ]_vars

\* the geometry fields of a context are all zero
GeometryIsZero(b) ==
  /\ b.bits_per_pixel = 0
  /\ b.bytes_per_pixel = 0
  /\ b.size = 0
  /\ b.red_bit_position = 0 /\ b.bits_for_red = 0
  /\ b.green_bit_position = 0 /\ b.bits_for_green = 0
  /\ b.blue_bit_position = 0 /\ b.bits_for_blue = 0
  /\ b.alpha_bit_position = 0 /\ b.bits_for_alpha = 0
  /\ b.area = EmptyArea

\* C18: when close returns, the mapping is unmapped and the descriptor is
\* closed, every geometry field (bits_per_pixel, bytes_per_pixel, size, the
\* channel positions and widths, the visible area) is zero and the shadow
\* buffer is still allocated; no call on a running context releases an
\* allocated shadow buffer.
C18_CloseResetsGeometry ==
  [][ status' = "running"
      => /\ last'.op = "close"
            => /\ buffer'.map_address = MAP_FAILED
               /\ buffer'.device_fd < 0
               /\ held'.fds = held.fds \ {buffer.device_fd}
               /\ held'.maps = held.maps - 1
               /\ GeometryIsZero(buffer')
               /\ buffer'.shadow_buffer # NULL
         /\ buffer.shadow_buffer # NULL
            => buffer'.shadow_buffer # NULL ]_vars

\* C19: no call on an open context changes device_name, open itself
\* included; set_device_name returns only on a context that is not open,
\* and then the context holds the name given and nothing else of the
\* context, of the device or of what the process holds has changed.
C19_DeviceNameFixedWhileOpen ==
  [][ status' = "running"
      => /\ ( \/ ply_video_buffer_device_is_open(buffer)
              \/ ply_video_buffer_device_is_open(buffer') )
            => buffer'.device_name = buffer.device_name
         /\ last'.op = "set_device_name"
            => /\ ~ply_video_buffer_device_is_open(buffer)
               /\ buffer' = [buffer EXCEPT !.device_name = last'.name]
               /\ device_bytes' = device_bytes
               /\ held' = held ]_vars

\* after a session was closed the context was given another name and then
\* opened again: it is open under the new name
C19_Witness ==
  /\ status = "running"
  /\ ply_video_buffer_device_is_open(buffer)
  /\ buffer.device_name # PLY_VIDEO_BUFFER_DEFAULT_FB_DEVICE_NAME
  /\ buffer.device_name \in DeviceNames
  /\ last.op = "open"
  /\ last.ret

\* the shadow buffers the call that `record` tells of leaves on the context
\* b when the msync of its flush succeeds
ShadowsOnSuccess(b, bytes, record, wild) ==
  { ply_video_buffer_fill_with_color(
      b, bytes, call.area, call.color, TRUE, wild).buffer.shadow_buffer :
      call \in { c \in FillCalls :
                   /\ record.op = "fill_with_color"
                   /\ AreaOf(b, c.area) = record.area
                   /\ FillPixel(c.color) = record.pixel } }
  \cup
  { ply_video_buffer_fill_with_argb32_data(
      b, bytes, call.area, call.block.x, call.block.y, call.block.width,
      call.block.height, SourceData(call.block), TRUE,
      wild).buffer.shadow_buffer :
      call \in { c \in CompositeCalls :
                   /\ record.op = "fill_with_argb32_data"
                   /\ AreaOf(b, c.area) = record.area } }
  \cup
  { ply_video_buffer_fill_with_argb32_data_at_opacity(
      b, bytes, call.area, call.block.x, call.block.y, call.block.width,
      call.block.height, SourceData(call.block), call.opacity, TRUE,
      wild).buffer.shadow_buffer :
      call \in { c \in OpacityCalls :
                   /\ record.op = "fill_with_argb32_data_at_opacity"
                   /\ AreaOf(b, c.area) = record.area } }

\* C20: a drawing operation called while updates are not paused calls msync
\* and returns true exactly when msync succeeded; when msync failed, the
\* shadow buffer holds what the same call leaves when msync succeeds, and
\* the device is still open.
C20_DrawReportsFlushFailure ==
  [][ ( /\ status' = "running"
        /\ last'.op \in DrawOps
        /\ ~buffer.is_paused )
      => /\ last'.sync \in {"ok", "failed"}
         /\ last'.ret <=> last'.sync = "ok"
         /\ last'.sync = "failed"
            => /\ ply_video_buffer_device_is_open(buffer')
               /\ buffer'.shadow_buffer \in
                    ShadowsOnSuccess(buffer, device_bytes, last', stray) ]_vars

\* fill_with_argb32_data has returned false because msync failed: the
\* device is still open and the shadow buffer holds the green pixel drawn
C20_Witness ==
  /\ status = "running"
  /\ last.op = "fill_with_argb32_data"
  /\ ~buffer.is_paused
  /\ last.sync = "failed"
  /\ ~last.ret
  /\ ply_video_buffer_device_is_open(buffer)
  /\ \E p \in PixelsOf(last.area) \cap SurfacePixels(buffer) :
       ShadowHolds(buffer, p, OpaqueGreen)

(***************************************************************************)
(* C21 .. C23                                                              *)
(***************************************************************************)

\* the byte ranges <<first, beyond>> a flush of the rectangle `area` is to
\* write: for each of its pixels the bytes_per_pixel bytes at row * stride +
\* column * bytes_per_pixel
PixelRanges(b, area) ==
  { << p[2] * Stride(b) + p[1] * b.bytes_per_pixel,
       p[2] * Stride(b) + p[1] * b.bytes_per_pixel + b.bytes_per_pixel >> :
      p \in PixelsOf(area) }

\* the operations that run a flush
CopyOps == FlushOps \cup {"open"}

\* C21: the writes of a flush that ran its copy on a dirty rectangle inside
\* the visible area are, for each pixel of the rectangle, the
\* bytes_per_pixel bytes at row * stride + column * bytes_per_pixel, and
\* none of them ends beyond the stride * visible_height bytes of the
\* mapping.
C21_DeviceWritesInsideMapping ==
  [][ ( /\ status' = "running"
        /\ last'.op \in CopyOps
        /\ last'.sync # "none"
        /\ Inside(last'.flushed, buffer'.area) )
      => /\ last'.ranges = PixelRanges(buffer', last'.flushed)
         /\ \A range \in last'.ranges : range[2] <= buffer'.size ]_vars

\* the operations that run a drawing loop over the shadow buffer: the
\* drawing operations, and open through its initial fill
ShadowOps == DrawOps \cup {"open"}

\* C22: every shadow-buffer index y * visible_width + x that the loop of a
\* drawing operation which accepted its area reads or writes lies in
\* 0 .. visible_width * visible_height - 1.
C22_ShadowIndicesInBounds ==
  [][ ( /\ status' = "running"
        /\ last'.op \in ShadowOps )
      => \A index \in last'.touched :
           /\ 0 <= index
           /\ index < buffer'.area.width * buffer'.area.height ]_vars

\* C23: no call passes to close a descriptor, or to munmap a region, that
\* the context did not obtain from an open or mmap of its own that
\* succeeded and has not released since: descriptor 0 of a fresh context
\* is never closed and nothing is released twice.
C23_ReleasesOnlyItsOwn ==
  held.foreign = {}

\* an open has returned false on a context whose geometry shows that an
\* open of it got past open () and FBIOGET_VSCREENINFO and whose close has
\* not run since: the rollback of a failed open has closed the descriptor
\* that open had obtained, the context refers to no descriptor and no
\* mapping, and the process holds none
C23_Witness ==
  /\ status = "running"
  /\ last.op = "open"
  /\ ~last.ret
  /\ buffer.area.width > 0
  /\ buffer.device_fd = -1
  /\ buffer.map_address = MAP_FAILED
  /\ held.fds = {}
  /\ held.maps = 0

====
